---- MODULE Spec2Model ----
(***************************************************************************)
(* mcp-task-bridge: discovery of the tasks of a Taskfile through the       *)
(* `task` runner, parsing of `task <name> --summary` into TaskDefinitions,  *)
(* the all-or-nothing catalog build (Inspect), and execution of a tool     *)
(* call by the MCP handler and by the agent tool.                          *)
(*                                                                         *)
(* Go strings are TLA+ strings; the operators of Go's `strings` package    *)
(* that the code uses are defined below with Go's semantics.               *)
(***************************************************************************)
EXTENDS Integers, Sequences, FiniteSets, TLC

VARIABLES
    taskBin,        \* package variable taskBin (runner executable)
    calls,          \* history of the processes spawned, with their outcome
    ipc,            \* Inspect: position in the function
    itaskfile,      \* Inspect: taskfilePath argument
    taskNames,      \* Inspect: names returned by DiscoverTasks
    idx,            \* Inspect: index of the range loop over taskNames
    config,         \* Inspect: the MCPConfig under construction
    iret,           \* Inspect: returned (config, err)
    gpc,            \* GetTaskDetails: position in the function
    gout,           \* GetTaskDetails: outcome of cmd.Run() and captured stdout
    lines,          \* GetTaskDetails: strings.Split(out.String(), "\n")
    li,             \* GetTaskDetails: index of the range loop over lines
    details,        \* GetTaskDetails: the TaskDefinition under construction
    parsingState,   \* GetTaskDetails: "", "usage" or "required"
    gret,           \* GetTaskDetails: returned (details, err)
    cpc,            \* MCP tool handler: position
    creq,           \* MCP tool handler: the CallToolRequest
    ccmd,           \* MCP tool handler: the command spawned and its outcome
    cres,           \* MCP tool handler: returned (result, err)
    apc,            \* agent tool Call: position
    areq,           \* agent tool Call: the tool and its input
    acmd,           \* agent tool Call: the command spawned and its outcome
    ares,           \* agent tool Call: returned (string, err)
    tpc,            \* start-up after Inspect: position in the tool-building loop
    ti,             \* start-up: index of the range loop over config.Tasks
    tools,          \* server: the []*mcp.Tool built by TranslateTtmcpTools
    agentTools,     \* agent: the []tools.Tool built by runAgent
    slots,          \* tool calls in flight at the same time, one record per call
    ppc,            \* DiscoverTasks, plain-text list: position in the function
    pout,           \* DiscoverTasks, plain-text list: outcome of cmd.Run()
    plines,         \* DiscoverTasks, plain-text list: the lines of the output
    pli,            \* DiscoverTasks, plain-text list: index of the range loop
    ptasks,         \* DiscoverTasks, plain-text list: the names collected
    pret,           \* DiscoverTasks, plain-text list: returned (names, err)
    spc,            \* program (server Run, runAgent): position after Inspect
    ri,             \* server Run: index of the range loop over tools
    registered,     \* server Run: the tools of the MCP server, by name
    lpc,            \* runAgent: position around the provider switch
    provider,       \* runAgent: the provider flag
    llmCalls,       \* runAgent: the LLM constructors called, in order
    ibin,           \* Inspect: taskBinPath argument
    round,          \* number of Inspect calls that have returned
    vm,             \* TUI viewer: the bubbletea model value
    vmsg,           \* TUI viewer: the message delivered last
    entered         \* TUI viewer: the cursor when enter was pressed last

vars == <<taskBin, calls, ipc, itaskfile, taskNames, idx, config, iret,
          gpc, gout, lines, li, details, parsingState, gret,
          cpc, creq, ccmd, cres, apc, areq, acmd, ares,
          tpc, ti, tools, agentTools, slots,
          ppc, pout, plines, pli, ptasks, pret,
          spc, ri, registered, lpc, provider, llmCalls, ibin, round,
          vm, vmsg, entered>>

inspectVars == <<ipc, itaskfile, taskNames, idx, config, iret>>
detailVars  == <<gpc, gout, lines, li, details, parsingState, gret>>
handlerVars == <<cpc, creq, ccmd, cres>>
agentVars   == <<apc, areq, acmd, ares>>
toolVars    == <<tpc, ti, tools, agentTools>>
listVars    == <<ppc, pout, plines, pli, ptasks, pret>>
progVars    == <<spc, ri, registered, lpc, provider, llmCalls>>
viewVars    == <<vm, vmsg, entered>>
otherVars   == <<listVars, viewVars>>
extVars     == <<otherVars, progVars, ibin, round>>

\* Go's nil error, and Go's nil pointer (also: no value yet).
Nil == "<nil>"
NilPtr == <<>>

----------------------------------------------------------------------------
(* Bounds of the model. *)

\* longest summary, in lines, the runner prints in the parser's specification
MaxLines == 3
\* most tokens in a generated usage text
MaxTokens == 2
\* most records in the runner's task list
MaxTasks == 2
\* most entries in the argument map of a tool call
MaxArgs == 2

----------------------------------------------------------------------------
(* Package strings. *)

CharAt(s, i) == SubSeq(s, i, i)

SetMin(S) == CHOOSE m \in S : \A n \in S : m <= n
SetMax(S) == CHOOSE m \in S : \A n \in S : m >= n

HasPrefix(s, prefix) ==
    Len(s) >= Len(prefix) /\ SubSeq(s, 1, Len(prefix)) = prefix

TrimPrefix(s, prefix) ==
    IF HasPrefix(s, prefix) THEN SubSeq(s, Len(prefix) + 1, Len(s)) ELSE s

\* unicode.IsSpace restricted to the characters the model's inputs use
IsSpace(c) == c \in {" ", "\t", "\n", "\r", "\f"}

TrimSpace(s) ==
    LET keep == {i \in 1..Len(s) : ~IsSpace(CharAt(s, i))}
    IN  IF keep = {} THEN "" ELSE SubSeq(s, SetMin(keep), SetMax(keep))

\* strings.Index, 1-based; 0 when substr does not occur
Index(s, substr) ==
    LET at == {i \in 1..(Len(s) - Len(substr) + 1) :
                  SubSeq(s, i, i + Len(substr) - 1) = substr}
    IN  IF at = {} THEN 0 ELSE SetMin(at)

Contains(s, substr) == Index(s, substr) # 0

RECURSIVE Split(_, _)
Split(s, sep) ==
    LET i == Index(s, sep)
    IN  IF i = 0 THEN <<s>>
        ELSE <<SubSeq(s, 1, i - 1)>> \o Split(SubSeq(s, i + Len(sep), Len(s)), sep)

RECURSIVE Fields(_)
Fields(s) ==
    LET start == {i \in 1..Len(s) : ~IsSpace(CharAt(s, i))}
    IN  IF start = {} THEN <<>>
        ELSE LET b    == SetMin(start)
                 stop == {i \in b..Len(s) : IsSpace(CharAt(s, i))}
                 e    == IF stop = {} THEN Len(s) + 1 ELSE SetMin(stop)
             IN  <<SubSeq(s, b, e - 1)>> \o Fields(SubSeq(s, e, Len(s)))

RECURSIVE Join(_, _)
Join(elems, sep) ==
    IF Len(elems) = 0 THEN ""
    ELSE IF Len(elems) = 1 THEN elems[1]
    ELSE elems[1] \o sep \o Join(Tail(elems), sep)

----------------------------------------------------------------------------
(* The runner process: what cmd.Run() can report.  err is Nil for exit     *)
(* status 0; otherwise the text of the error.                              *)

ErrNotFound == "exec: \"task\": executable file not found in $PATH"
ErrExit1    == "exit status 1"

\* variant: an invocation that printed nothing is taken for a failed one
RunFailedOrSilent(r) == r.err # Nil \/ r.stdout = ""

RunFailed(r) == r.err # Nil

----------------------------------------------------------------------------
(* What the runner can print.                                              *)

TaskfilePaths == {"Taskfile.yml"}
TaskNameSet   == {"w", "d:q"}

\* lines of a summary: header, description text, markers at the start of a
\* line, an indented marker, an empty line
LineSet ==
    { "task: w", "Do x.", "  more ", "",
      "Usage: w A=1 B=2", "Usage: w --flag", "Usage:",
      "Required: A", "  Usage: w C=3" }

\* tokens of a usage text and the whitespace between them
TokenSet == { "A=1", "B=<b>", "A=2", "w", "=x" }
SepSet   == { " ", "  ", "\t" }

RECURSIVE UsageTextsOf(_)
UsageTextsOf(n) ==
    IF n <= 1 THEN TokenSet
    ELSE { u \o s \o t : u \in UsageTextsOf(n - 1), s \in SepSet, t \in TokenSet }

UsageTexts == UNION { UsageTextsOf(n) : n \in 1..MaxTokens }

LineTuples == UNION { [1..n -> LineSet] : n \in 0..MaxLines }

SummaryTexts ==
    { Join(t, "\n") : t \in LineTuples }
    \cup { "task: w\nDo x.\nUsage: " \o u \o "\n" : u \in UsageTexts }

\* outcomes of `task <name> --summary`: could not start, exit status 1
\* (with or without output), exit status 0 with a summary text
SummaryResults ==
    { [err |-> ErrNotFound, stdout |-> ""],
      [err |-> ErrExit1, stdout |-> ""],
      [err |-> ErrExit1, stdout |-> "Do x.\nUsage: w A=1\n"] }
    \cup { [err |-> Nil, stdout |-> t] : t \in SummaryTexts }

----------------------------------------------------------------------------
(* GetTaskDetails. *)

NewTaskDefinition(taskName) ==
    [Name |-> taskName, Description |-> "", Usage |-> "", Parameters |-> <<>>]

\* variant: header lines are not discarded
ProcessLineKeepsHeader(d, state, line) ==
    IF HasPrefix(line, "Usage:") THEN
        [details |-> [d EXCEPT !.Usage = TrimSpace(TrimPrefix(line, "Usage:"))],
         parsingState |-> "usage"]
    ELSE IF HasPrefix(line, "Required:") THEN
        [details |-> d, parsingState |-> "required"]
    ELSE IF state = "" THEN
        [details |-> [d EXCEPT !.Description = @ \o line \o "\n"],
         parsingState |-> state]
    ELSE [details |-> d, parsingState |-> state]

\* variant: a line that is not a marker ends the section a marker opened
ProcessLineSectionEnds(d, state, line) ==
    IF HasPrefix(line, "task: ") THEN [details |-> d, parsingState |-> state]
    ELSE IF HasPrefix(line, "Usage:") THEN
        [details |-> [d EXCEPT !.Usage = TrimSpace(TrimPrefix(line, "Usage:"))],
         parsingState |-> "usage"]
    ELSE IF HasPrefix(line, "Required:") THEN
        [details |-> d, parsingState |-> "required"]
    ELSE IF state = "" THEN
        [details |-> [d EXCEPT !.Description = @ \o line \o "\n"],
         parsingState |-> state]
    ELSE [details |-> d, parsingState |-> ""]

\* variant: the first "Usage:" line is kept, later ones are ignored
ProcessLineFirstUsage(d, state, line) ==
    IF HasPrefix(line, "task: ") THEN [details |-> d, parsingState |-> state]
    ELSE IF HasPrefix(line, "Usage:") THEN
        [details |-> IF d.Usage = ""
                     THEN [d EXCEPT !.Usage = TrimSpace(TrimPrefix(line, "Usage:"))]
                     ELSE d,
         parsingState |-> "usage"]
    ELSE IF HasPrefix(line, "Required:") THEN
        [details |-> d, parsingState |-> "required"]
    ELSE IF state = "" THEN
        [details |-> [d EXCEPT !.Description = @ \o line \o "\n"],
         parsingState |-> state]
    ELSE [details |-> d, parsingState |-> state]

\* the body of the loop over the lines of the summary
ProcessLine(d, state, line) ==
    IF HasPrefix(line, "task: ") THEN [details |-> d, parsingState |-> state]
    ELSE IF HasPrefix(line, "Usage:") THEN
        [details |-> [d EXCEPT !.Usage = TrimSpace(TrimPrefix(line, "Usage:"))],
         parsingState |-> "usage"]
    ELSE IF HasPrefix(line, "Required:") THEN
        [details |-> d, parsingState |-> "required"]
    ELSE IF state = "" THEN
        [details |-> [d EXCEPT !.Description = @ \o line \o "\n"],
         parsingState |-> state]
    ELSE [details |-> d, parsingState |-> state]

NewTaskParameter(paramName) ==
    [Name |-> paramName, Description |-> "", IsRequired |-> FALSE]

\* the separator the usage string is cut on
UsageSep == " "

\* variant: every part of the usage string is taken for a parameter
ParseParametersEveryPart(usage) ==
    LET parts == Split(usage, UsageSep)
    IN  [i \in 1..Len(parts) |-> NewTaskParameter(Split(parts[i], "=")[1])]

\* "Basic parameter parsing from Usage line"
ParseParameters(usage) ==
    IF Contains(usage, "=") THEN
        LET parts == Split(usage, UsageSep)
            HasEq(part) == Contains(part, "=")
            withEq == SelectSeq(parts, HasEq)
        IN  [i \in 1..Len(withEq) |-> NewTaskParameter(Split(withEq[i], "=")[1])]
    ELSE <<>>

SummaryArgs(taskfilePath, taskName) ==
    <<taskName, "--summary", "--taskfile", taskfilePath>>

\* cmdExec(taskBin, taskName, "--summary", ...) and cmd.Run(); on failure the
\* function returns at once, otherwise the output is split into lines
GetTaskDetailsCall(taskfilePath, taskName, results) ==
    /\ gpc = "idle"
    /\ \E r \in results :
        /\ calls' = Append(calls, [bin |-> taskBin,
                                   args |-> SummaryArgs(taskfilePath, taskName),
                                   res |-> r])
        /\ gout' = r
        /\ IF RunFailed(r)
           THEN /\ gret' = [details |-> NilPtr, err |-> r.err]
                /\ gpc' = "done"
                /\ UNCHANGED <<lines, li, details, parsingState>>
           ELSE /\ lines' = Split(r.stdout, "\n")
                /\ details' = NewTaskDefinition(taskName)
                /\ parsingState' = ""
                /\ li' = 1
                /\ gpc' = "loop"
                /\ UNCHANGED gret

\* one iteration of `for _, line := range lines`
ParseLine ==
    /\ gpc = "loop"
    /\ li <= Len(lines)
    /\ LET st == ProcessLine(details, parsingState, lines[li])
       IN  /\ details' = st.details
           /\ parsingState' = st.parsingState
    /\ li' = li + 1
    /\ UNCHANGED <<gpc, gout, lines, gret>>
    /\ UNCHANGED <<taskBin, calls, inspectVars, handlerVars, agentVars, toolVars, slots>>
    /\ UNCHANGED extVars

\* after the loop: trim the description, derive the parameters, return
GetTaskDetailsReturn ==
    /\ gpc = "loop"
    /\ li > Len(lines)
    /\ details' = [details EXCEPT !.Description = TrimSpace(@),
                                  !.Parameters = ParseParameters(details.Usage)]
    /\ gret' = [details |-> details', err |-> Nil]
    /\ gpc' = "done"
    /\ UNCHANGED <<gout, lines, li, parsingState>>
    /\ UNCHANGED <<taskBin, calls, inspectVars, handlerVars, agentVars, toolVars, slots>>
    /\ UNCHANGED extVars

\* GetTaskDetails called on its own
GetTaskDetailsEntry ==
    /\ ipc = "idle"
    /\ \E tf \in TaskfilePaths, name \in TaskNameSet :
           GetTaskDetailsCall(tf, name, SummaryResults)
    /\ UNCHANGED <<taskBin, inspectVars, handlerVars, agentVars, toolVars, slots>>
    /\ UNCHANGED extVars

----------------------------------------------------------------------------
(* DiscoverTasks.  The bytes `task --list --json` prints are modelled by    *)
(* what encoding/json makes of them: text that is not JSON, a JSON value    *)
(* that is not an object, or an object whose "tasks" member is a list of    *)
(* records.                                                                *)

TaskRecords ==
    { [name |-> "w", task |-> "w", desc |-> "Weather"],
      [name |-> "d:q", task |-> "q", desc |-> ""] }

RecordLists == UNION { [1..n -> TaskRecords] : n \in 0..MaxTasks }

ListOutputs ==
    { [kind |-> "text"], [kind |-> "array"] }
    \cup { [kind |-> "object", tasks |-> t] : t \in RecordLists }

ListResults ==
    { [err |-> ErrNotFound, stdout |-> [kind |-> "text"]],
      [err |-> ErrExit1, stdout |-> [kind |-> "object", tasks |-> <<>>]] }
    \cup { [err |-> Nil, stdout |-> o] : o \in ListOutputs }

ErrJSON == "json: cannot unmarshal into Go value of type inspector.TaskListResult"

\* variant: output that is not the expected object decodes to an empty list
UnmarshalLenient(out) ==
    IF out.kind = "object"
    THEN [err |-> Nil,
          val |-> [Tasks |-> [i \in 1..Len(out.tasks) |->
                                 [Name |-> out.tasks[i].name,
                                  TaskKey |-> out.tasks[i].task,
                                  Description |-> out.tasks[i].desc]]]]
    ELSE [err |-> Nil, val |-> [Tasks |-> <<>>]]

\* json.Unmarshal(out.Bytes(), &taskListResult)
Unmarshal(out) ==
    IF out.kind = "object"
    THEN [err |-> Nil,
          val |-> [Tasks |-> [i \in 1..Len(out.tasks) |->
                                 [Name |-> out.tasks[i].name,
                                  TaskKey |-> out.tasks[i].task,
                                  Description |-> out.tasks[i].desc]]]]
    ELSE [err |-> ErrJSON, val |-> [Tasks |-> <<>>]]

\* variant: the names are taken from the "task" member of the records
CollectTaskKeys(tasks) == [i \in 1..Len(tasks) |-> tasks[i].TaskKey]

\* `for _, task := range taskListResult.Tasks { tasks = append(tasks, task.Name) }`
CollectNames(tasks) == [i \in 1..Len(tasks) |-> tasks[i].Name]

ListArgs(taskfilePath) == <<"--list", "--json", "--taskfile", taskfilePath>>

\* variant: an empty task list is reported as an error
DiscoverTasksResultNonEmpty(r) ==
    IF RunFailed(r) THEN [names |-> <<>>, err |-> r.err]
    ELSE LET u == Unmarshal(r.stdout)
         IN  IF u.err # Nil THEN [names |-> <<>>, err |-> u.err]
             ELSE IF Len(u.val.Tasks) = 0 THEN [names |-> <<>>, err |-> "no tasks found"]
             ELSE [names |-> CollectNames(u.val.Tasks), err |-> Nil]

\* what DiscoverTasks returns for an outcome r of the list command
DiscoverTasksResult(r) ==
    IF RunFailed(r) THEN [names |-> <<>>, err |-> r.err]
    ELSE LET u == Unmarshal(r.stdout)
         IN  IF u.err # Nil THEN [names |-> <<>>, err |-> u.err]
             ELSE [names |-> CollectNames(u.val.Tasks), err |-> Nil]

----------------------------------------------------------------------------
(* Inspect. *)

TaskBinPaths == {"", "/opt/bin/task"}

\* outcomes of `task <name> --summary` during a catalog build
CatalogSummaryResults ==
    { [err |-> ErrExit1, stdout |-> ""],
      [err |-> Nil, stdout |-> "task: w\n\nDo x.\nUsage: w A=1 B=2\nRequired: A\n"],
      [err |-> Nil, stdout |-> "Do y.\n"],
      [err |-> Nil, stdout |-> "Usage: q K=<k> K=2\n"],
      [err |-> Nil, stdout |-> ""] }

\* `if taskBinPath != "" { taskBin = taskBinPath }`
InspectCall ==
    /\ ipc = "idle" /\ gpc = "idle" /\ calls = <<>>
    /\ \E taskBinPath \in TaskBinPaths, taskfilePath \in TaskfilePaths :
        /\ taskBin' = IF taskBinPath # "" THEN taskBinPath ELSE taskBin
        /\ ibin' = taskBinPath
        /\ itaskfile' = taskfilePath
    /\ ipc' = "discover"
    /\ UNCHANGED <<calls, taskNames, idx, config, iret>>
    /\ UNCHANGED <<detailVars, handlerVars, agentVars, toolVars, slots>>
    /\ UNCHANGED <<otherVars, progVars, round>>

\* `taskNames, err := DiscoverTasks(taskfilePath)`, then `config := &MCPConfig{}`
InspectDiscover ==
    /\ ipc = "discover"
    /\ \E r \in ListResults :
        /\ calls' = Append(calls, [bin |-> taskBin, args |-> ListArgs(itaskfile), res |-> r])
        /\ LET d == DiscoverTasksResult(r)
           IN  IF d.err # Nil
               THEN /\ iret' = [config |-> NilPtr, err |-> d.err]
                    /\ ipc' = "done"
                    /\ UNCHANGED <<taskNames, idx, config>>
               ELSE /\ taskNames' = d.names
                    /\ config' = [Tasks |-> <<>>]
                    /\ idx' = 1
                    /\ ipc' = "loop"
                    /\ UNCHANGED iret
    /\ UNCHANGED <<taskBin, itaskfile, detailVars, handlerVars, agentVars, toolVars, slots>>
    /\ UNCHANGED extVars

\* `details, err := GetTaskDetails(taskfilePath, taskName)` for the next name
InspectFetch ==
    /\ ipc = "loop"
    /\ idx <= Len(taskNames)
    /\ GetTaskDetailsCall(itaskfile, taskNames[idx], CatalogSummaryResults)
    /\ UNCHANGED <<taskBin, inspectVars, handlerVars, agentVars, toolVars, slots>>
    /\ UNCHANGED extVars

\* variant: a failed fetch is not noticed
FetchNeverFailed(ret) == FALSE

\* `if err != nil` after GetTaskDetails
FetchFailed(ret) == ret.err # Nil

\* variant: the tasks built so far are returned with the error
AbortBuildPartial(cfg, err) == [config |-> cfg, err |-> err]

\* variant: the error of the fetch is replaced by a fixed message
AbortBuildGeneric(cfg, err) == [config |-> NilPtr, err |-> "inspection failed"]

\* `return nil, err` inside the loop
AbortBuild(cfg, err) == [config |-> NilPtr, err |-> err]

\* GetTaskDetails has returned: abort the build, or append and go on
InspectTake ==
    /\ ipc = "loop"
    /\ gpc = "done"
    /\ IF FetchFailed(gret)
       THEN /\ iret' = AbortBuild(config, gret.err)
            /\ ipc' = "done"
            /\ UNCHANGED <<config, idx>>
       ELSE /\ config' = [config EXCEPT !.Tasks = Append(@, gret.details)]
            /\ idx' = idx + 1
            /\ UNCHANGED <<ipc, iret>>
    /\ gpc' = "idle"
    /\ UNCHANGED <<gout, lines, li, details, parsingState, gret>>
    /\ UNCHANGED <<taskBin, calls, itaskfile, taskNames, handlerVars, agentVars, toolVars, slots>>
    /\ UNCHANGED extVars

\* the loop is over: `return config, nil`
InspectReturn ==
    /\ ipc = "loop"
    /\ gpc = "idle"
    /\ idx > Len(taskNames)
    /\ iret' = [config |-> config, err |-> Nil]
    /\ ipc' = "done"
    /\ UNCHANGED <<taskBin, calls, itaskfile, taskNames, idx, config>>
    /\ UNCHANGED <<detailVars, handlerVars, agentVars, toolVars, slots>>
    /\ UNCHANGED extVars

----------------------------------------------------------------------------
(* Tool execution: the MCP tool handler and the agent tool's Call. *)

ToolNames == {"w", "d:q"}
KeySet    == {"A", "B b", "k="}
ValueSet  == {"1", "x y", ""}

ArgMaps ==
    UNION { [K -> ValueSet] : K \in {S \in SUBSET KeySet : Cardinality(S) <= MaxArgs} }

\* the orders in which `range` can visit the keys of a map
Orders(S) ==
    { o \in [1..Cardinality(S) -> S] : \A i, j \in 1..Cardinality(S) : o[i] = o[j] => i = j }

\* free-text inputs of the agent tool
AgentInputs == {"", "INPUT=world", "A=1  B=2", "A=1\tB=2", " go ", "K=x y"}

\* outcomes of the spawned command: could not start, exit status 1, exit status 0
StdoutSet == {"", " 72F \n"}
StderrSet == {"", "task: boom\n"}
ProcResults ==
    { [err |-> ErrNotFound, stdout |-> "", stderr |-> ""] }
    \cup { [err |-> e, stdout |-> o, stderr |-> x] :
              e \in {ErrExit1, Nil}, o \in StdoutSet, x \in StderrSet }

\* fmt.Sprintf("%s=%s", key, value)
KeyValueToken(key, value) == key \o "=" \o value

\* variant: the tokens are cut on whitespace, as Call cuts its input
HandlerArgsSplit(taskfilePath, name, arguments, order) ==
    <<"--taskfile", taskfilePath, name>>
        \o Fields(Join([i \in 1..Len(order) |->
                            KeyValueToken(order[i], arguments[order[i]])], " "))

\* args of the command the handler builds, for an iteration order of the map
HandlerArgs(taskfilePath, name, arguments, order) ==
    <<"--taskfile", taskfilePath, name>>
        \o [i \in 1..Len(order) |-> KeyValueToken(order[i], arguments[order[i]])]

\* variant: a failed command is raised as the handler's error
HandlerResultRaises(r) ==
    IF r.err # Nil
    THEN [result |-> NilPtr, err |-> r.err]
    ELSE [result |-> [IsError |-> FALSE, Text |-> r.stdout], err |-> Nil]

\* variant: the result of a failed command holds both streams
HandlerResultBoth(r) ==
    IF r.err # Nil
    THEN [result |-> [IsError |-> TRUE, Text |-> r.stderr \o r.stdout], err |-> Nil]
    ELSE [result |-> [IsError |-> FALSE, Text |-> r.stdout], err |-> Nil]

\* what the handler returns for an outcome r of cmd.Run()
HandlerResult(r) ==
    IF r.err # Nil
    THEN [result |-> [IsError |-> TRUE, Text |-> r.stderr], err |-> Nil]
    ELSE [result |-> [IsError |-> FALSE, Text |-> r.stdout], err |-> Nil]

\* the handler is called with a request; it builds and starts the command
HandlerCall ==
    /\ cpc = "idle" /\ apc = "idle"
    /\ \E tf \in TaskfilePaths, name \in ToolNames, m \in ArgMaps :
        \E order \in Orders(DOMAIN m) :
            /\ creq' = [taskfilePath |-> tf, Name |-> name, Arguments |-> m]
            /\ ccmd' = [bin |-> "task", args |-> HandlerArgs(tf, name, m, order),
                        res |-> NilPtr]
    /\ cpc' = "running"
    /\ UNCHANGED <<cres, taskBin, calls, inspectVars, detailVars, agentVars,
                 toolVars, slots>>
    /\ UNCHANGED extVars

\* cmd.Run() returns and the handler returns its result
HandlerFinish ==
    /\ cpc = "running"
    /\ \E r \in ProcResults :
        /\ ccmd' = [ccmd EXCEPT !.res = r]
        /\ cres' = HandlerResult(r)
    /\ cpc' = "done"
    /\ UNCHANGED <<creq, taskBin, calls, inspectVars, detailVars, agentVars,
                 toolVars, slots>>
    /\ UNCHANGED extVars

\* args of the command Call builds
AgentArgs(taskfilePath, taskName, input) ==
    <<"-t", taskfilePath, taskName>> \o (IF input # "" THEN Fields(input) ELSE <<>>)

\* what Call returns for an outcome r of execCmd.Run()
AgentResult(taskName, r) ==
    LET stdout == TrimSpace(r.stdout)
        stderr == TrimSpace(r.stderr)
    IN  IF r.err # Nil
        THEN [text |-> "Error executing task " \o taskName \o ": " \o r.err
                          \o ". Stderr: " \o stderr \o ". Stdout: " \o stdout,
              err |-> Nil]
        ELSE IF stderr # ""
        THEN [text |-> "Stdout:\n" \o stdout \o "\nStderr:\n" \o stderr, err |-> Nil]
        ELSE [text |-> stdout, err |-> Nil]

\* Call is invoked on a tool with an input; it builds and starts the command
AgentCall ==
    /\ apc = "idle" /\ cpc = "idle"
    /\ \E tf \in TaskfilePaths, name \in ToolNames, input \in AgentInputs :
        /\ areq' = [taskfilePath |-> tf, taskName |-> name, input |-> input]
        /\ acmd' = [bin |-> "task", args |-> AgentArgs(tf, name, input), res |-> NilPtr]
    /\ apc' = "running"
    /\ UNCHANGED <<ares, taskBin, calls, inspectVars, detailVars, handlerVars,
                 toolVars, slots>>
    /\ UNCHANGED extVars

\* execCmd.Run() returns and Call returns its text
AgentFinish ==
    /\ apc = "running"
    /\ \E r \in ProcResults :
        /\ acmd' = [acmd EXCEPT !.res = r]
        /\ ares' = AgentResult(areq.taskName, r)
    /\ apc' = "done"
    /\ UNCHANGED <<areq, taskBin, calls, inspectVars, detailVars, handlerVars,
                 toolVars, slots>>
    /\ UNCHANGED extVars

----------------------------------------------------------------------------
(* Start-up after Inspect: the server translates the catalog into MCP      *)
(* tools, the agent wraps each task in a taskExecutorTool.  An mcp.Tool is  *)
(* modelled by the fields the options of mcp-go set: Name, Description and  *)
(* the input schema (Properties by name, Required in order of addition).   *)

\* mcp.WithDescription(description)
WithDescription(description) ==
    [option |-> "description", description |-> description]

\* mcp.WithString(name, ...), with or without mcp.Required()
WithString(name, required) ==
    [option |-> "string", name |-> name, required |-> required]

\* Properties[name] = schema
PutProperty(props, name, schema) ==
    [n \in (DOMAIN props) \cup {name} |-> IF n = name THEN schema ELSE props[n]]

\* what an option does to the tool it is applied to
ApplyOption(tool, opt) ==
    IF opt.option = "description"
    THEN [tool EXCEPT !.Description = opt.description]
    ELSE [tool EXCEPT !.InputSchema =
              [Type |-> "object",
               Properties |-> PutProperty(@.Properties, opt.name, [type |-> "string"]),
               Required |-> IF opt.required THEN Append(@.Required, opt.name)
                            ELSE @.Required]]

RECURSIVE ApplyOptions(_, _)
ApplyOptions(tool, opts) ==
    IF opts = <<>> THEN tool
    ELSE ApplyOptions(ApplyOption(tool, Head(opts)), Tail(opts))

\* mcp.NewTool(name, opts...)
NewTool(name, opts) ==
    ApplyOptions([Name |-> name, Description |-> "",
                  InputSchema |-> [Type |-> "object", Properties |-> <<>>,
                                   Required |-> <<>>]],
                 opts)

\* variant: a parameter is mandatory only when its own flag says so
StringOptionByFlag(param) == WithString(param.Name, param.IsRequired)

\* `mcp.WithString(param.Name, mcp.Required())`
StringOption(param) == WithString(param.Name, TRUE)

\* variant: only the first parameter of the task is exposed
ToolOptionsFirstParam(task) ==
    <<WithDescription(task.Description)>>
        \o [i \in 1..(IF Len(task.Parameters) > 0 THEN 1 ELSE 0) |->
               StringOption(task.Parameters[i])]

\* the toolOptions TranslateTtmcpTools collects for one task
ToolOptions(task) ==
    <<WithDescription(task.Description)>>
        \o [i \in 1..Len(task.Parameters) |-> StringOption(task.Parameters[i])]

\* a catalog is there to be translated
CatalogBuilt == ipc = "done" /\ iret.err = Nil

\* server.Run: `tools := TranslateTtmcpTools(config)` after a successful Inspect
TranslateCall ==
    /\ CatalogBuilt
    /\ tpc = "idle"
    /\ tpc' = "translate"
    /\ tools' = <<>>
    /\ ti' = 1
    /\ UNCHANGED <<agentTools, slots>>
    /\ UNCHANGED <<taskBin, calls, inspectVars, detailVars, handlerVars, agentVars>>
    /\ UNCHANGED extVars

\* one iteration of `for _, task := range config.Tasks`
TranslateTask ==
    /\ tpc = "translate"
    /\ ti <= Len(iret.config.Tasks)
    /\ LET task == iret.config.Tasks[ti]
       IN  tools' = Append(tools, NewTool(task.Name, ToolOptions(task)))
    /\ ti' = ti + 1
    /\ UNCHANGED <<tpc, agentTools, slots>>
    /\ UNCHANGED <<taskBin, calls, inspectVars, detailVars, handlerVars, agentVars>>
    /\ UNCHANGED extVars

\* `return tools`
TranslateReturn ==
    /\ tpc = "translate"
    /\ ti > Len(iret.config.Tasks)
    /\ tpc' = "translated"
    /\ UNCHANGED <<ti, tools, agentTools, slots>>
    /\ UNCHANGED <<taskBin, calls, inspectVars, detailVars, handlerVars, agentVars>>
    /\ UNCHANGED extVars

\* variant: the tool is named after the first word of the usage string
NewTaskExecutorToolFromUsage(taskDef, taskfilePath) ==
    [taskName |-> IF Fields(taskDef.Usage) # <<>> THEN Fields(taskDef.Usage)[1]
                  ELSE taskDef.Name,
     taskDescription |-> taskDef.Description,
     taskUsage |-> taskDef.Usage, taskfilePath |-> taskfilePath]

\* &taskExecutorTool{taskName: ..., taskDescription: ..., taskUsage: ..., taskfilePath: ...}
NewTaskExecutorTool(taskDef, taskfilePath) ==
    [taskName |-> taskDef.Name, taskDescription |-> taskDef.Description,
     taskUsage |-> taskDef.Usage, taskfilePath |-> taskfilePath]

\* (t *taskExecutorTool) Name()
ToolName(t) == t.taskName

\* variant: the usage string comes first
ToolDescriptionUsageFirst(t) == "Usage: " \o t.taskUsage \o " " \o t.taskDescription

\* (t *taskExecutorTool) Description(): fmt.Sprintf("%s Usage: %s", ...)
ToolDescription(t) == t.taskDescription \o " Usage: " \o t.taskUsage

\* runAgent: `var agentTools []tools.Tool` after a successful Inspect
AgentToolsCall ==
    /\ CatalogBuilt
    /\ tpc = "idle"
    /\ tpc' = "wrap"
    /\ agentTools' = <<>>
    /\ ti' = 1
    /\ UNCHANGED <<tools, slots>>
    /\ UNCHANGED <<taskBin, calls, inspectVars, detailVars, handlerVars, agentVars>>
    /\ UNCHANGED extVars

\* one iteration of `for _, taskDef := range mcpConfig.Tasks`
AgentToolsTask ==
    /\ tpc = "wrap"
    /\ ti <= Len(iret.config.Tasks)
    /\ agentTools' = Append(agentTools,
                            NewTaskExecutorTool(iret.config.Tasks[ti], itaskfile))
    /\ ti' = ti + 1
    /\ UNCHANGED <<tpc, tools, slots>>
    /\ UNCHANGED <<taskBin, calls, inspectVars, detailVars, handlerVars, agentVars>>
    /\ UNCHANGED extVars

\* the loop is over: the tools go to the agent
AgentToolsReturn ==
    /\ tpc = "wrap"
    /\ ti > Len(iret.config.Tasks)
    /\ tpc' = "wrapped"
    /\ UNCHANGED <<ti, tools, agentTools, slots>>
    /\ UNCHANGED <<taskBin, calls, inspectVars, detailVars, handlerVars, agentVars>>
    /\ UNCHANGED extVars

----------------------------------------------------------------------------
(* Tool calls in flight at the same time.  Every call of the handler (or   *)
(* of Call) has its own args, its own exec.Cmd and its own output buffers; *)
(* slots[k] holds those locals for the k-th call.                          *)

\* most calls in flight at once
MaxCalls == 2

\* requests of concurrent calls: to the MCP handler and to the agent tool
ConcRequests ==
    { [kind |-> "mcp", taskfilePath |-> "Taskfile.yml", Name |-> "w",
       Arguments |-> ("A" :> "1")],
      [kind |-> "mcp", taskfilePath |-> "Taskfile.yml", Name |-> "d:q",
       Arguments |-> <<>>],
      [kind |-> "agent", taskfilePath |-> "Taskfile.yml", taskName |-> "w",
       input |-> "A=1  B=2"] }

\* outcomes of the process of a concurrent call
ConcResults ==
    { [err |-> ErrNotFound, stdout |-> "", stderr |-> ""],
      [err |-> ErrExit1, stdout |-> "", stderr |-> "task: boom\n"],
      [err |-> Nil, stdout |-> " 72F \n", stderr |-> ""],
      [err |-> Nil, stdout |-> " 72F \n", stderr |-> "task: boom\n"] }

IdleSlot == [pc |-> "idle", req |-> NilPtr, cmd |-> NilPtr, res |-> NilPtr]

\* the commands a call can build from its request
CommandsOf(req) ==
    IF req.kind = "mcp"
    THEN { [bin |-> "task",
            args |-> HandlerArgs(req.taskfilePath, req.Name, req.Arguments, o),
            res |-> NilPtr] : o \in Orders(DOMAIN req.Arguments) }
    ELSE { [bin |-> "task",
            args |-> AgentArgs(req.taskfilePath, req.taskName, req.input),
            res |-> NilPtr] }

\* variant: the output buffers are shared, the first call's are read
OutcomeOfShared(s, k) == IF s[1].cmd # NilPtr /\ s[1].cmd.res # NilPtr
                         THEN s[1].cmd.res ELSE s[k].cmd.res

\* the outcome a call reads: that of its own cmd and buffers
OutcomeOf(s, k) == s[k].cmd.res

\* what a call returns for its request and the outcome r of its process
ResultOf(req, r) ==
    IF req.kind = "mcp" THEN HandlerResult(r) ELSE AgentResult(req.taskName, r)

\* a call arrives: it builds its command and starts its process
CallStart(k) ==
    /\ slots[k].pc = "idle"
    /\ \E req \in ConcRequests : \E cmd \in CommandsOf(req) :
           slots' = [slots EXCEPT ![k] = [pc |-> "running", req |-> req,
                                          cmd |-> cmd, res |-> NilPtr]]
    /\ UNCHANGED <<taskBin, calls, inspectVars, detailVars, handlerVars,
                   agentVars, toolVars>>
    /\ UNCHANGED extVars

\* the process of a call ends: cmd.Run() returns in that call
CallExit(k) ==
    /\ slots[k].pc = "running"
    /\ \E r \in ConcResults :
           slots' = [slots EXCEPT ![k].cmd.res = r, ![k].pc = "exited"]
    /\ UNCHANGED <<taskBin, calls, inspectVars, detailVars, handlerVars,
                   agentVars, toolVars>>
    /\ UNCHANGED extVars

\* the call builds its result and returns
CallReturn(k) ==
    /\ slots[k].pc = "exited"
    /\ slots' = [slots EXCEPT ![k].res = ResultOf(slots[k].req, OutcomeOf(slots, k)),
                              ![k].pc = "done"]
    /\ UNCHANGED <<taskBin, calls, inspectVars, detailVars, handlerVars,
                   agentVars, toolVars>>
    /\ UNCHANGED extVars

----------------------------------------------------------------------------
(* DiscoverTasks of the plain-text variant: `task --list` prints one line  *)
(* "* name:   description" per task, between other lines.  The output is   *)
(* drawn as a list of items and rendered the way the runner prints it.     *)

\* most lines in a plain-text task list
MaxListLines == 3

ListItems ==
    { [kind |-> "task", name |-> "news", desc |-> "Latest news"],
      [kind |-> "task", name |-> "weather", desc |-> "Forecast: today"],
      [kind |-> "task", name |-> "data:query_users", desc |-> "Query users"],
      [kind |-> "other", text |-> "task: Available tasks for this project:"],
      [kind |-> "other", text |-> ""] }

\* the line the runner prints for an item
ListLine(item) ==
    IF item.kind = "task" THEN "* " \o item.name \o ":" \o "      " \o item.desc
    ELSE item.text

ItemLists == UNION { [1..n -> ListItems] : n \in 0..MaxListLines }

\* the text the runner prints for a list of items, each line ended by "\n"
ListText(items) ==
    IF items = <<>> THEN ""
    ELSE Join([i \in 1..Len(items) |-> ListLine(items[i])], "\n") \o "\n"

\* outcomes of `task --list`
PlainListResults ==
    { [err |-> ErrNotFound, stdout |-> "", items |-> <<>>],
      [err |-> ErrExit1, stdout |-> "", items |-> <<>>] }
    \cup { [err |-> Nil, stdout |-> ListText(t), items |-> t] : t \in ItemLists }

PlainListArgs(taskfilePath) == <<"--list", "--taskfile", taskfilePath>>

\* `strings.TrimSpace(strings.TrimPrefix(strings.Split(line, ":")[0], "* "))`
PlainTaskName(line) == TrimSpace(TrimPrefix(Split(line, ":")[1], "* "))

\* exec.Command("task", "--list", ...) and cmd.Run(); on failure the function
\* returns at once, otherwise the output is split into lines
PlainDiscoverCall ==
    /\ ppc = "idle"
    /\ \E tf \in TaskfilePaths, r \in PlainListResults :
        /\ calls' = Append(calls, [bin |-> "task", args |-> PlainListArgs(tf), res |-> r])
        /\ pout' = r
        /\ IF RunFailed(r)
           THEN /\ pret' = [names |-> <<>>, err |-> r.err]
                /\ ppc' = "done"
                /\ UNCHANGED <<plines, pli, ptasks>>
           ELSE /\ plines' = Split(r.stdout, "\n")
                /\ ptasks' = <<>>
                /\ pli' = 1
                /\ ppc' = "loop"
                /\ UNCHANGED pret
    /\ UNCHANGED <<taskBin, inspectVars, detailVars, handlerVars, agentVars,
                   toolVars, slots, progVars, ibin, round, viewVars>>

\* one iteration of `for _, line := range lines`
PlainDiscoverLine ==
    /\ ppc = "loop"
    /\ pli <= Len(plines)
    /\ ptasks' = IF HasPrefix(plines[pli], "* ")
                 THEN Append(ptasks, PlainTaskName(plines[pli]))
                 ELSE ptasks
    /\ pli' = pli + 1
    /\ UNCHANGED <<ppc, pout, plines, pret>>
    /\ UNCHANGED <<taskBin, calls, inspectVars, detailVars, handlerVars, agentVars,
                   toolVars, slots, progVars, ibin, round, viewVars>>

\* `return tasks, nil`
PlainDiscoverReturn ==
    /\ ppc = "loop"
    /\ pli > Len(plines)
    /\ pret' = [names |-> ptasks, err |-> Nil]
    /\ ppc' = "done"
    /\ UNCHANGED <<pout, plines, pli, ptasks>>
    /\ UNCHANGED <<taskBin, calls, inspectVars, detailVars, handlerVars, agentVars,
                   toolVars, slots, progVars, ibin, round, viewVars>>

----------------------------------------------------------------------------
(* The programs around Inspect: server.Run registers the translated tools   *)
(* and serves; runAgent picks the LLM constructor by the provider flag and  *)
(* wraps the tasks in agent tools.  Both return at once when Inspect fails. *)

FrameOfProgram == <<otherVars, ibin, round>>

\* `if err != nil { ...; return }` after Inspect, in Run and in runAgent
RunInspectFailed ==
    /\ ipc = "done" /\ iret.err # Nil
    /\ spc = "idle"
    /\ spc' = "returned"
    /\ UNCHANGED <<ri, registered, lpc, provider, llmCalls>>
    /\ UNCHANGED <<taskBin, calls, inspectVars, detailVars, handlerVars, agentVars,
                   toolVars, slots, FrameOfProgram>>

\* Run: `tools := TranslateTtmcpTools(config)`
RunTranslate ==
    /\ spc = "idle" /\ lpc = "idle"
    /\ TranslateCall

\* createTaskHandler(taskfilePath): the closure keeps the path
NewTaskHandler(taskfilePath) == [taskfilePath |-> taskfilePath]

\* s.AddTool(tool, handler): the server keeps its tools by name
AddTool(reg, tool, handler) ==
    [n \in (DOMAIN reg) \cup {tool.Name} |->
        IF n = tool.Name THEN [tool |-> tool, handler |-> handler] ELSE reg[n]]

\* one iteration of `for _, tool := range tools { s.AddTool(*tool, handler) }`
RunAddTool ==
    /\ tpc = "translated"
    /\ spc \in {"idle", "register"}
    /\ ri < Len(tools)
    /\ registered' = AddTool(registered, tools[ri + 1], NewTaskHandler(itaskfile))
    /\ ri' = ri + 1
    /\ spc' = "register"
    /\ UNCHANGED <<lpc, provider, llmCalls>>
    /\ UNCHANGED <<taskBin, calls, inspectVars, detailVars, handlerVars, agentVars,
                   toolVars, slots, FrameOfProgram>>

\* variant: the server may start before the loop over the tools is over
ReadyToServeEarly(tls, n) == TRUE

\* the loop over the tools is over
ReadyToServe(tls, n) == n >= Len(tls)

\* `server.ServeStdio(s)`
RunServe ==
    /\ tpc = "translated"
    /\ spc \in {"idle", "register"}
    /\ ReadyToServe(tools, ri)
    /\ spc' = "serving"
    /\ UNCHANGED <<ri, registered, lpc, provider, llmCalls>>
    /\ UNCHANGED <<taskBin, calls, inspectVars, detailVars, handlerVars, agentVars,
                   toolVars, slots, FrameOfProgram>>

\* argument maps of the tool calls a client sends to the running server
ServeArgMaps == { <<>>, ("A" :> "1"), ("A" :> "1") @@ ("B b" :> "x y") }

\* the server dispatches a tools/call request for one of its tools to the
\* handler registered with it; the handler builds and starts the command
ServeCall ==
    /\ spc = "serving"
    /\ cpc = "idle"
    /\ \E name \in DOMAIN registered, m \in ServeArgMaps :
        \E order \in Orders(DOMAIN m) :
            LET tf == registered[name].handler.taskfilePath
            IN  /\ creq' = [taskfilePath |-> tf, Name |-> name, Arguments |-> m]
                /\ ccmd' = [bin |-> "task", args |-> HandlerArgs(tf, name, m, order),
                            res |-> NilPtr]
    /\ cpc' = "running"
    /\ UNCHANGED <<cres, taskBin, calls, inspectVars, detailVars, agentVars,
                   toolVars, slots, progVars, FrameOfProgram>>

\* values of the --provider flag
Providers == {"anthropic", "openai", "unknown-provider", ""}

\* what an LLM constructor returns as its error
LLMResults == {Nil, "llm: missing token"}

\* variant: an unknown provider falls back to the default one
ConstructorForDefault(p) ==
    IF p = "openai" THEN "newOpenAIFn" ELSE "newAnthropicFn"

\* `switch provider`: the constructor of the case taken, "" for the default case
ConstructorFor(p) ==
    IF p = "openai" THEN "newOpenAIFn"
    ELSE IF p = "anthropic" THEN "newAnthropicFn"
    ELSE ""

\* runAgent after a successful Inspect: the provider switch
AgentSelectLLM ==
    /\ CatalogBuilt
    /\ spc = "idle" /\ lpc = "idle" /\ tpc = "idle"
    /\ \E p \in Providers, e \in LLMResults :
        /\ provider' = p
        /\ IF ConstructorFor(p) = ""
           THEN /\ llmCalls' = llmCalls
                /\ lpc' = "returned"
           ELSE /\ llmCalls' = Append(llmCalls, ConstructorFor(p))
                /\ lpc' = IF e = Nil THEN "ready" ELSE "returned"
    /\ UNCHANGED <<spc, ri, registered>>
    /\ UNCHANGED <<taskBin, calls, inspectVars, detailVars, handlerVars, agentVars,
                   toolVars, slots, FrameOfProgram>>

\* runAgent: `var langchainTools []tools.Tool` once the LLM is there
AgentBuildTools ==
    /\ lpc = "ready"
    /\ AgentToolsCall

\* inputs of the calls made on the agent's tools
ProgramInputs == {"", "A=1  B=2"}

\* Call is invoked on one of the tools runAgent created
ToolCall ==
    /\ tpc = "wrapped"
    /\ apc = "idle"
    /\ \E n \in 1..Len(agentTools), input \in ProgramInputs :
        LET t == agentTools[n]
        IN  /\ areq' = [taskfilePath |-> t.taskfilePath, taskName |-> t.taskName,
                        input |-> input]
            /\ acmd' = [bin |-> "task",
                        args |-> AgentArgs(t.taskfilePath, t.taskName, input),
                        res |-> NilPtr]
    /\ apc' = "running"
    /\ UNCHANGED <<ares, taskBin, calls, inspectVars, detailVars, handlerVars,
                   toolVars, slots, progVars, FrameOfProgram>>

\* most calls of Inspect in one process
MaxInspects == 2

\* Inspect has returned to its caller: its locals are gone, the package
\* variable taskBin stays; the history of processes starts anew
InspectForget ==
    /\ ipc = "done"
    /\ spc = "idle" /\ lpc = "idle" /\ tpc = "idle"
    /\ round + 1 < MaxInspects
    /\ round' = round + 1
    /\ ipc' = "idle" /\ itaskfile' = "" /\ taskNames' = <<>> /\ idx' = 0
    /\ config' = NilPtr /\ iret' = NilPtr
    /\ gpc' = "idle" /\ gout' = NilPtr /\ lines' = <<>> /\ li' = 0
    /\ details' = NilPtr /\ parsingState' = "" /\ gret' = NilPtr
    /\ calls' = <<>>
    /\ UNCHANGED <<taskBin, ibin, handlerVars, agentVars, toolVars, slots,
                   otherVars, progVars>>

----------------------------------------------------------------------------
(* The TUI viewer: a bubbletea model holding a list of the tasks and the   *)
(* task whose detail is shown.  The list of the bubbles library is         *)
(* modelled by its items, its cursor, its width and whether the filter     *)
(* prompt is open.                                                         *)

\* most tasks in the catalog handed to the viewer
MaxViewTasks == 3

ViewDefinitions ==
    { [Name |-> "w", Description |-> "Do x.", Usage |-> "w A=1 B=2",
       Parameters |-> ParseParameters("w A=1 B=2")],
      NewTaskDefinition("d:q") }

\* the catalogs the viewer is started with (never an empty one)
ViewConfigs ==
    { [Tasks |-> t] : t \in UNION { [1..n -> ViewDefinitions] : n \in 1..MaxViewTasks } }

\* the messages bubbletea delivers
ViewKeys   == {"up", "down", "enter", "esc", "q", "ctrl+c", "/", "x"}
ViewWidths == {80, 120}
ViewMsgs ==
    { [type |-> "key", key |-> k] : k \in ViewKeys }
    \cup { [type |-> "size", Width |-> w] : w \in ViewWidths }
    \cup { [type |-> "other"] }

\* list.New(items, ..., 0, 0)
NewList(items) == [items |-> items, cursor |-> 0, width |-> 0, filtering |-> FALSE]

\* m.list.SetWidth(w)
SetWidth(l, w) == [l EXCEPT !.width = w]

\* m.list.SelectedItem()
SelectedItem(l) == l.items[l.cursor + 1]

\* m.list.Update(msg): the keys of the list move the cursor or open the filter
ListUpdate(l, msg) ==
    IF msg.type # "key" THEN l
    ELSE IF msg.key = "down"
         THEN [l EXCEPT !.cursor = IF @ + 1 < Len(l.items) THEN @ + 1 ELSE @]
    ELSE IF msg.key = "up"
         THEN [l EXCEPT !.cursor = IF @ > 0 THEN @ - 1 ELSE @]
    ELSE IF msg.key = "/"
         THEN [l EXCEPT !.filtering = TRUE]
    ELSE l

\* NewModel(config)
NewModel(cfg) ==
    [list |-> NewList(cfg.Tasks), choice |-> "", quitting |-> FALSE,
     taskConfig |-> cfg, selectedTask |-> NilPtr]

\* variant: every message that is not handled goes to the list, also while
\* a task is shown
UpdateAlwaysForwards(m, msg) ==
    IF msg.type = "key" /\ msg.key \in {"ctrl+c", "q"}
    THEN [m EXCEPT !.quitting = TRUE]
    ELSE IF msg.type = "key" /\ msg.key = "enter"
    THEN [m EXCEPT !.selectedTask = SelectedItem(m.list)]
    ELSE IF msg.type = "key" /\ msg.key = "esc"
    THEN [m EXCEPT !.selectedTask = NilPtr]
    ELSE IF msg.type = "size"
    THEN [m EXCEPT !.list = SetWidth(@, msg.Width)]
    ELSE [m EXCEPT !.list = ListUpdate(@, msg)]

\* (m model) Update(msg): the model returned
Update(m, msg) ==
    IF msg.type = "key" /\ msg.key \in {"ctrl+c", "q"}
    THEN [m EXCEPT !.quitting = TRUE]
    ELSE IF msg.type = "key" /\ msg.key = "enter"
    THEN [m EXCEPT !.selectedTask = SelectedItem(m.list)]
    ELSE IF msg.type = "key" /\ msg.key = "esc"
    THEN [m EXCEPT !.selectedTask = NilPtr]
    ELSE IF msg.type = "size"
    THEN [m EXCEPT !.list = SetWidth(@, msg.Width)]
    ELSE IF m.selectedTask = NilPtr
    THEN [m EXCEPT !.list = ListUpdate(@, msg)]
    ELSE m

\* (m model) View(): what is on the screen
View(m) ==
    IF m.quitting THEN [screen |-> "none"]
    ELSE IF m.selectedTask # NilPtr THEN [screen |-> "task", task |-> m.selectedTask]
    ELSE [screen |-> "list", list |-> m.list]

\* the viewer is started with the catalog
ViewStart ==
    /\ vm = NilPtr
    /\ \E cfg \in ViewConfigs : vm' = NewModel(cfg)
    /\ UNCHANGED <<vmsg, entered>>
    /\ UNCHANGED <<taskBin, calls, inspectVars, detailVars, handlerVars, agentVars,
                   toolVars, slots, listVars, progVars, ibin, round>>

\* bubbletea delivers a message to Update, until tea.Quit was returned
ViewDeliver ==
    /\ vm # NilPtr
    /\ ~vm.quitting
    /\ \E msg \in ViewMsgs :
        /\ vm' = Update(vm, msg)
        /\ vmsg' = msg
        /\ entered' = IF msg.type = "key" /\ msg.key = "enter"
                      THEN vm.list.cursor ELSE entered
    /\ UNCHANGED <<taskBin, calls, inspectVars, detailVars, handlerVars, agentVars,
                   toolVars, slots, listVars, progVars, ibin, round>>

----------------------------------------------------------------------------

Init ==
    /\ taskBin = "task"
    /\ calls = <<>>
    /\ ipc = "idle" /\ itaskfile = "" /\ taskNames = <<>> /\ idx = 0
    /\ config = NilPtr /\ iret = NilPtr
    /\ gpc = "idle" /\ gout = NilPtr /\ lines = <<>> /\ li = 0
    /\ details = NilPtr /\ parsingState = "" /\ gret = NilPtr
    /\ cpc = "idle" /\ creq = NilPtr /\ ccmd = NilPtr /\ cres = NilPtr
    /\ apc = "idle" /\ areq = NilPtr /\ acmd = NilPtr /\ ares = NilPtr
    /\ tpc = "idle" /\ ti = 0 /\ tools = <<>> /\ agentTools = <<>>
    /\ slots = [k \in 1..MaxCalls |-> IdleSlot]
    /\ ppc = "idle" /\ pout = NilPtr /\ plines = <<>> /\ pli = 0
    /\ ptasks = <<>> /\ pret = NilPtr
    /\ spc = "idle" /\ ri = 0 /\ registered = <<>>
    /\ lpc = "idle" /\ provider = "" /\ llmCalls = <<>>
    /\ ibin = "" /\ round = 0
    /\ vm = NilPtr /\ vmsg = NilPtr /\ entered = 0

NextDetails ==
    \/ GetTaskDetailsEntry
    \/ ParseLine
    \/ GetTaskDetailsReturn

SpecDetails == Init /\ [][NextDetails]_vars

Next ==
    \/ InspectCall
    \/ InspectDiscover
    \/ InspectFetch
    \/ ParseLine
    \/ GetTaskDetailsReturn
    \/ InspectTake
    \/ InspectReturn

Spec == Init /\ [][Next]_vars

NextCall ==
    \/ HandlerCall
    \/ HandlerFinish
    \/ AgentCall
    \/ AgentFinish

SpecCall == Init /\ [][NextCall]_vars

\* a program from Inspect to its tools: the server's or the agent's
NextTools ==
    \/ InspectCall
    \/ InspectDiscover
    \/ InspectFetch
    \/ ParseLine
    \/ GetTaskDetailsReturn
    \/ InspectTake
    \/ InspectReturn
    \/ TranslateCall
    \/ TranslateTask
    \/ TranslateReturn
    \/ AgentToolsCall
    \/ AgentToolsTask
    \/ AgentToolsReturn

SpecTools == Init /\ [][NextTools]_vars

\* tool calls arriving while others are in flight
NextConc ==
    \E k \in 1..MaxCalls :
        \/ CallStart(k)
        \/ CallExit(k)
        \/ CallReturn(k)

SpecConc == Init /\ [][NextConc]_vars

\* DiscoverTasks of the plain-text variant, called on its own
NextList ==
    \/ PlainDiscoverCall
    \/ PlainDiscoverLine
    \/ PlainDiscoverReturn

SpecList == Init /\ [][NextList]_vars

\* the TUI viewer
NextView ==
    \/ ViewStart
    \/ ViewDeliver

SpecView == Init /\ [][NextView]_vars

\* the server program and the agent program, from Inspect to their tool calls
NextProgram ==
    \/ InspectCall
    \/ InspectDiscover
    \/ InspectFetch
    \/ ParseLine
    \/ GetTaskDetailsReturn
    \/ InspectTake
    \/ InspectReturn
    \/ RunInspectFailed
    \/ RunTranslate
    \/ TranslateTask
    \/ TranslateReturn
    \/ RunAddTool
    \/ RunServe
    \/ ServeCall
    \/ HandlerFinish
    \/ AgentSelectLLM
    \/ AgentBuildTools
    \/ AgentToolsTask
    \/ AgentToolsReturn
    \/ ToolCall
    \/ AgentFinish

SpecProgram == Init /\ [][NextProgram]_vars

\* Inspect called again and again in one process
NextRepeat ==
    \/ InspectCall
    \/ InspectDiscover
    \/ InspectFetch
    \/ ParseLine
    \/ GetTaskDetailsReturn
    \/ InspectTake
    \/ InspectReturn
    \/ InspectForget

SpecRepeat == Init /\ [][NextRepeat]_vars

----------------------------------------------------------------------------
(* Properties of GetTaskDetails, checked under SpecDetails. *)

IsHeader(line) == HasPrefix(line, "task: ")
IsMarker(line) == ~IsHeader(line) /\ (HasPrefix(line, "Usage:") \/ HasPrefix(line, "Required:"))
IsText(line)   == ~IsHeader(line) /\ ~IsMarker(line) /\ TrimSpace(line) # ""

Returned   == gpc = "done"
ReturnedOk == gpc = "done" /\ gret.err = Nil

\* the names of the whitespace-delimited tokens of a usage text that hold '='
TokenName(tok) == SubSeq(tok, 1, Index(tok, "=") - 1)
ExpectedParamNames(usage) ==
    LET HasEq(tok) == Contains(tok, "=")
        toks == SelectSeq(Fields(usage), HasEq)
    IN  [i \in 1..Len(toks) |-> TokenName(toks[i])]

ParamNames(d) == [i \in 1..Len(d.Parameters) |-> d.Parameters[i].Name]

\* C3: the parameters of a returned TaskDefinition are, one for one and in
\* order, the whitespace-delimited tokens of its usage string that contain
\* '=' (single spaces, runs of spaces and tabs alike), repeated names kept.
C3_OneParameterPerToken ==
    ReturnedOk => ParamNames(gret.details) = ExpectedParamNames(gret.details.Usage)

\* index of the first marker line, Len(lines) + 1 when there is none
FirstMarker ==
    LET at == {i \in 1..Len(lines) : IsMarker(lines[i])}
    IN  IF at = {} THEN Len(lines) + 1 ELSE SetMin(at)

NoUsageLine == \A i \in 1..Len(lines) : ~HasPrefix(lines[i], "Usage:")

NotHeader(line) == ~IsHeader(line)

\* C4: a summary with no line starting with "Usage:" gives usage "", no
\* parameters, and as description the lines before the first marker, headers
\* left out, joined by newlines and trimmed.
C4_NoUsageLine ==
    (ReturnedOk /\ NoUsageLine) =>
        /\ gret.details.Usage = ""
        /\ gret.details.Parameters = <<>>
        /\ gret.details.Description =
               TrimSpace(Join(SelectSeq(SubSeq(lines, 1, FirstMarker - 1), NotHeader), "\n"))

\* a summary without usage whose "Required:" line is followed by text, and
\* whose description is not empty
C4_Witness ==
    /\ ReturnedOk /\ NoUsageLine
    /\ gret.details.Description # ""
    /\ \E i \in 1..Len(lines) : \E j \in (i + 1)..Len(lines) :
           HasPrefix(lines[i], "Required:") /\ IsText(lines[j])

\* C7: inside the loop over the lines, once the parser has left the
\* description state it never returns to it, and no later line changes the
\* description.
C7_DescriptionStopsAtMarker ==
    [][(gpc = "loop" /\ gpc' = "loop" /\ parsingState # "")
          => (parsingState' # "" /\ details'.Description = details.Description)]_vars

\* a text line has just been processed after an earlier marker line
C7_Witness ==
    /\ gpc = "loop" /\ li > 2 /\ parsingState # ""
    /\ IsText(lines[li - 1])
    /\ \E m \in 1..(li - 2) : IsMarker(lines[m])
    /\ details.Description # ""

\* C8: GetTaskDetails returns an error exactly when the runner invocation
\* failed; whatever text a successful invocation printed, it returns a
\* TaskDefinition and no error.
C8_ErrorOnlyFromRunner ==
    Returned =>
        /\ (gret.err # Nil) <=> (gout.err # Nil)
        /\ (gout.err = Nil) => (gret.details # NilPtr /\ gret.details.Name = calls[Len(calls)].args[1])
        /\ (gout.err # Nil) => gret.details = NilPtr

\* returned without error from a summary whose "Required:" line comes before
\* its "Usage:" line
C8_Witness ==
    /\ ReturnedOk
    /\ \E i \in 1..Len(lines) : \E j \in (i + 1)..Len(lines) :
           HasPrefix(lines[i], "Required:") /\ HasPrefix(lines[j], "Usage:")

\* returned without error from an empty output
C8_WitnessEmpty == ReturnedOk /\ gout.stdout = ""

\* C20: every parameter of a returned TaskDefinition has a non-empty name.
C20_ParameterNamesNonEmpty ==
    ReturnedOk =>
        \A i \in 1..Len(gret.details.Parameters) : gret.details.Parameters[i].Name # ""

\* C21: the parameter names of a returned TaskDefinition are pairwise
\* distinct.
C21_ParameterNamesDistinct ==
    ReturnedOk =>
        \A i, j \in 1..Len(gret.details.Parameters) :
            gret.details.Parameters[i].Name = gret.details.Parameters[j].Name => i = j

\* the text after the marker of a "Usage:" line
UsageText(line) == TrimPrefix(line, "Usage:")

NoEqToken(text) == \A n \in 1..Len(Fields(text)) : ~Contains(Fields(text)[n], "=")

UsageLines == {i \in 1..Len(lines) : HasPrefix(lines[i], "Usage:")}

\* C22: a summary with a "Usage:" line whose text has no token containing
\* '=' gives a non-empty usage string and no parameters.
C22_UsageWithoutParameters ==
    (ReturnedOk /\ \E i \in UsageLines : NoEqToken(UsageText(lines[i]))) =>
        /\ gret.details.Usage # ""
        /\ gret.details.Parameters = <<>>

\* C22, amended: when the last "Usage:" line of a summary has no token
\* containing '=', the usage string is the trimmed text of that line (empty
\* when the line holds nothing but the marker) and there are no parameters.
C22_LastUsageWithoutParameters ==
    (ReturnedOk /\ UsageLines # {} /\ NoEqToken(UsageText(lines[SetMax(UsageLines)]))) =>
        /\ gret.details.Usage = TrimSpace(UsageText(lines[SetMax(UsageLines)]))
        /\ (gret.details.Usage # "") <=> (Fields(UsageText(lines[SetMax(UsageLines)])) # <<>>)
        /\ gret.details.Parameters = <<>>

\* returned from a summary whose only usage line has tokens, none with '='
C22_Witness ==
    /\ ReturnedOk
    /\ Cardinality(UsageLines) = 1
    /\ lines[SetMax(UsageLines)] = "Usage: w --flag"
    /\ gret.details.Usage = "w --flag"
    /\ gret.details.Parameters = <<>>

\* C29: the usage string is the trimmed text of the last line that starts
\* with "Usage:", wherever that line stands (after an earlier "Usage:" line,
\* after a "Required:" line), and the parameters are derived from it; a line
\* where "Usage:" is not at the very start is not a marker.
C29_LastUsageLineWins ==
    ReturnedOk =>
        /\ gret.details.Usage =
              (IF UsageLines = {} THEN ""
               ELSE TrimSpace(UsageText(lines[SetMax(UsageLines)])))
        /\ gret.details.Parameters = ParseParameters(gret.details.Usage)
        /\ \A i \in 1..Len(lines) :
              (~HasPrefix(lines[i], "Usage:") /\ Contains(lines[i], "Usage:")
                   /\ i > (IF UsageLines = {} THEN 0 ELSE SetMax(UsageLines)))
                 => gret.details.Usage # TrimSpace(UsageText(TrimSpace(lines[i])))

\* a "Usage:" line, a "Required:" line, then a different "Usage:" line with
\* parameters: the last one is the usage
C29_Witness ==
    /\ ReturnedOk
    /\ Len(lines) = 3
    /\ lines[1] = "Usage: w --flag"
    /\ HasPrefix(lines[2], "Required:")
    /\ lines[3] = "Usage: w A=1 B=2"
    /\ gret.details.Usage = "w A=1 B=2"
    /\ Len(gret.details.Parameters) = 2

\* an indented "Usage:" line after a real one leaves the usage alone
C29_WitnessIndented ==
    /\ ReturnedOk
    /\ Len(lines) = 2
    /\ lines[1] = "Usage: w --flag"
    /\ lines[2] = "  Usage: w C=3"
    /\ gret.details.Usage = "w --flag"
    /\ gret.details.Parameters = <<>>

----------------------------------------------------------------------------
(* Properties of Inspect, checked under Spec. *)

InspectDone == ipc = "done"

IsListCall(c)          == c.args = ListArgs(itaskfile)
IsSummaryCall(c, name) == c.args = SummaryArgs(itaskfile, name)
IsFetch(c)             == Len(c.args) = 4 /\ c.args[2] = "--summary"

\* C1: when a detail fetch of the build has failed, Inspect returns an error
\* and a nil catalog, never the tasks fetched before the failure.
C1_AllOrNothing ==
    (InspectDone /\ \E i \in 1..Len(calls) : IsFetch(calls[i]) /\ calls[i].res.err # Nil)
        => (iret.config = NilPtr /\ iret.err # Nil)

\* the first task was fetched and parsed, the second fetch failed
C1_Witness ==
    /\ InspectDone
    /\ Len(calls) = 3
    /\ IsFetch(calls[2]) /\ calls[2].res.err = Nil
    /\ IsFetch(calls[3]) /\ calls[3].res.err # Nil
    /\ Len(config.Tasks) = 1

\* C9: the names DiscoverTasks returns are the names of the records of the
\* runner's output, in their order, and a catalog returned without error has
\* one TaskDefinition per record, the i-th named as the i-th record.
C9_CatalogMirrorsDiscovery ==
    /\ (ipc = "loop") =>
          LET recs == calls[1].res.stdout.tasks
          IN  /\ Len(taskNames) = Len(recs)
              /\ \A i \in 1..Len(recs) : taskNames[i] = recs[i].name
    /\ (InspectDone /\ iret.err = Nil) =>
          LET recs == calls[1].res.stdout.tasks
          IN  /\ Len(iret.config.Tasks) = Len(recs)
              /\ \A i \in 1..Len(recs) : iret.config.Tasks[i].Name = recs[i].name

\* a catalog of two differently named tasks has been returned
C9_Witness ==
    /\ InspectDone /\ iret.err = Nil
    /\ Len(iret.config.Tasks) >= 2
    /\ iret.config.Tasks[1].Name # iret.config.Tasks[2].Name

\* C10: the first process spawned is the one list command; every later one
\* is the summary command of the next discovered name, spawned only after
\* discovery and every earlier fetch has succeeded.
C10_SequentialFailFast ==
    /\ (ipc \in {"idle", "discover"}) => calls = <<>>
    /\ (ipc \in {"loop", "done"}) => (Len(calls) >= 1 /\ IsListCall(calls[1]))
    /\ \A i \in 2..Len(calls) :
          /\ DiscoverTasksResult(calls[1].res).err = Nil
          /\ i - 1 <= Len(taskNames)
          /\ IsSummaryCall(calls[i], taskNames[i - 1])
          /\ ~IsListCall(calls[i])
          /\ (i > 2) => calls[i - 1].res.err = Nil
    /\ (InspectDone /\ iret.err = Nil) => Len(calls) = 1 + Len(taskNames)

\* two names were discovered, the first fetch failed and the build ended
\* without a fetch for the second name
C10_Witness ==
    /\ InspectDone
    /\ Len(taskNames) = 2
    /\ Len(calls) = 2
    /\ calls[2].res.err # Nil

\* discovery failed and the build ended with the list command alone
C10_WitnessDiscovery ==
    InspectDone /\ Len(calls) = 1 /\ calls[1].res.err # Nil

\* the list command failed, or printed something that is not the expected
\* JSON object
DiscoveryFailed ==
    /\ Len(calls) >= 1
    /\ (calls[1].res.err # Nil \/ calls[1].res.stdout.kind # "object")

\* C11: when the list command fails or its output cannot be decoded,
\* DiscoverTasks yields an error and no names, and Inspect returns that error
\* with a nil catalog.
C11_DiscoveryErrorPropagates ==
    (ipc \in {"loop", "done"} /\ DiscoveryFailed) =>
        /\ InspectDone
        /\ taskNames = <<>>
        /\ iret.config = NilPtr
        /\ iret.err # Nil
        /\ iret.err = (IF calls[1].res.err # Nil THEN calls[1].res.err ELSE ErrJSON)
        /\ Len(calls) = 1

\* Inspect has returned after a list command that exited with status 0 and
\* printed text that is not JSON
C11_Witness ==
    /\ InspectDone
    /\ calls[1].res.err = Nil
    /\ calls[1].res.stdout.kind = "text"

\* Inspect has returned after a list command that could not be started
C11_WitnessRun == InspectDone /\ calls[1].res.err = ErrNotFound

\* the list command succeeded and listed no task
DiscoveredNone ==
    /\ Len(calls) >= 1
    /\ calls[1].res.err = Nil
    /\ calls[1].res.stdout.kind = "object"
    /\ calls[1].res.stdout.tasks = <<>>

\* C12: when discovery succeeds with zero tasks, Inspect returns an empty
\* catalog and no error, and no summary command is spawned.
C12_EmptyCatalog ==
    /\ DiscoveredNone => (ipc \in {"loop", "done"} /\ Len(calls) = 1)
    /\ (InspectDone /\ DiscoveredNone) =>
          /\ iret.err = Nil
          /\ iret.config # NilPtr
          /\ iret.config.Tasks = <<>>

\* Inspect has returned the empty catalog
C12_Witness == InspectDone /\ DiscoveredNone /\ iret.err = Nil

\* the last process spawned was a summary command, and it failed
LastFetchFailed ==
    /\ Len(calls) >= 2
    /\ IsFetch(calls[Len(calls)])
    /\ calls[Len(calls)].res.err # Nil

\* C19 as stated: the error Inspect returns after a failed detail fetch
\* names the task whose fetch failed and holds the error of the process.
C19_ErrorNamesTask ==
    (InspectDone /\ LastFetchFailed) =>
        /\ Contains(iret.err, calls[Len(calls)].args[1])
        /\ Contains(iret.err, calls[Len(calls)].res.err)

\* C19 amended: the error Inspect returns after a failed detail fetch is the
\* error of the failed process itself, with nothing added.
C19_ErrorIsProcessError ==
    (InspectDone /\ LastFetchFailed) =>
        /\ iret.err = calls[Len(calls)].res.err
        /\ iret.config = NilPtr

\* the fetch of the second of two discovered tasks has failed
C19_Witness ==
    /\ InspectDone /\ LastFetchFailed
    /\ Len(calls) = 3
    /\ calls[3].args[1] = taskNames[2]

----------------------------------------------------------------------------
(* Properties of tool execution, checked under SpecCall. *)

HandlerDone == cpc = "done"
AgentDone   == apc = "done"

\* C2: whatever the spawned process did, the handler returns a result with a
\* nil error, and so does Call.
C2_FailureIsAResult ==
    /\ HandlerDone => (cres.err = Nil /\ cres.result # NilPtr)
    /\ AgentDone => (ares.err = Nil /\ ares.text \in STRING)

\* the handler has returned after a command that could not be started
C2_Witness ==
    HandlerDone /\ ccmd.res.err = ErrNotFound /\ cres.result.IsError

\* Call has returned after a command that exited with a non-zero status
C2_WitnessAgent == AgentDone /\ acmd.res.err = ErrExit1

\* C5: the handler's command has the arguments "--taskfile", the configured
\* path, the tool name, and then the tokens key=value of the entries of the
\* argument map, each entry exactly once as one token.
C5_OneTokenPerArgument ==
    (cpc \in {"running", "done"}) =>
        LET a == ccmd.args
            m == creq.Arguments
            n == Cardinality(DOMAIN m)
        IN  /\ Len(a) = 3 + n
            /\ a[1] = "--taskfile" /\ a[2] = creq.taskfilePath /\ a[3] = creq.Name
            /\ \E o \in Orders(DOMAIN m) :
                   \A i \in 1..n : a[3 + i] = o[i] \o "=" \o m[o[i]]

\* a call with two arguments, one value holding a space and one key an '='
C5_Witness ==
    /\ HandlerDone
    /\ DOMAIN creq.Arguments = {"B b", "k="}
    /\ creq.Arguments["k="] = "x y"
    /\ creq.Arguments["B b"] = ""

OutcomeText(r) == IF r.err = Nil THEN r.stdout ELSE r.stderr

\* C6 as stated: every result, of the handler and of Call, is exactly the
\* captured stdout of a command that succeeded or exactly the captured stderr
\* of one that failed.
C6_OneStreamOnly ==
    /\ HandlerDone => cres.result.Text = OutcomeText(ccmd.res)
    /\ AgentDone => ares.text = OutcomeText(acmd.res)

\* C6 amended: the handler's result is exactly stdout on success and exactly
\* stderr on failure; Call returns the trimmed stdout alone only when the
\* command succeeded with nothing but whitespace on stderr, and otherwise a
\* longer text that holds both trimmed streams.
C6_HandlerOneStreamAgentBoth ==
    /\ HandlerDone =>
          /\ cres.result.Text = OutcomeText(ccmd.res)
          /\ cres.result.IsError <=> (ccmd.res.err # Nil)
    /\ AgentDone =>
          LET so == TrimSpace(acmd.res.stdout)
              se == TrimSpace(acmd.res.stderr)
          IN  IF acmd.res.err = Nil /\ se = ""
              THEN ares.text = so
              ELSE /\ Contains(ares.text, so) /\ Contains(ares.text, se)
                   /\ Len(ares.text) > Len(so) + Len(se)

\* Call has returned after a command that succeeded and wrote to both streams
C6_Witness ==
    /\ AgentDone /\ acmd.res.err = Nil
    /\ TrimSpace(acmd.res.stdout) # "" /\ TrimSpace(acmd.res.stderr) # ""

\* the handler has returned after a failed command that wrote to both streams
C6_WitnessHandler ==
    /\ HandlerDone /\ ccmd.res.err # Nil
    /\ ccmd.res.stdout # "" /\ ccmd.res.stderr # ""

\* a token of the form key=value, with a key
IsKeyValue(tok) == Index(tok, "=") > 1

\* C16: every token Call appends to the command after the task name is a
\* key=value pair, and an empty input appends no token.
C16_TokensAreKeyValue ==
    (apc \in {"running", "done"}) =>
        /\ Len(acmd.args) >= 3
        /\ \A i \in 4..Len(acmd.args) : IsKeyValue(acmd.args[i])
        /\ (areq.input = "") => Len(acmd.args) = 3

----------------------------------------------------------------------------
(* Properties of the tools built from the catalog, checked under SpecTools. *)

Catalog == iret.config.Tasks

HasSuffix(s, suffix) ==
    Len(s) >= Len(suffix) /\ SubSeq(s, Len(s) - Len(suffix) + 1, Len(s)) = suffix

PropertyNames(tool) == DOMAIN tool.InputSchema.Properties

IsRequiredOf(tool, name) ==
    \E n \in 1..Len(tool.InputSchema.Required) : tool.InputSchema.Required[n] = name

\* C13: TranslateTtmcpTools returns one descriptor per TaskDefinition, in
\* catalog order; the name of each descriptor is the task name, and every
\* parameter name of the task is in the descriptor's parameter set.
C13_TranslationPreservesIdentity ==
    (tpc \in {"translate", "translated"}) =>
        /\ Len(tools) = (IF tpc = "translated" THEN Len(Catalog) ELSE ti - 1)
        /\ \A i \in 1..Len(tools) :
              /\ tools[i].Name = Catalog[i].Name
              /\ \A j \in 1..Len(Catalog[i].Parameters) :
                    Catalog[i].Parameters[j].Name \in PropertyNames(tools[i])

C13_Witness ==
    /\ tpc = "translated"
    /\ Len(tools) = 2
    /\ tools[1].Name = "w" /\ tools[2].Name = "d:q"
    /\ Len(Catalog[1].Parameters) = 2
    /\ PropertyNames(tools[1]) = {"A", "B"}

\* C14: the description of a descriptor is the task description, and every
\* parameter of the task is a string option that is mandatory, whatever the
\* parameter's own IsRequired flag.
C14_MandatoryStringOptions ==
    (tpc \in {"translate", "translated"}) =>
        \A i \in 1..Len(tools) :
            /\ tools[i].Description = Catalog[i].Description
            /\ \A j \in 1..Len(Catalog[i].Parameters) :
                  LET name == Catalog[i].Parameters[j].Name
                  IN  /\ name \in PropertyNames(tools[i])
                      /\ tools[i].InputSchema.Properties[name].type = "string"
                      /\ IsRequiredOf(tools[i], name)

C14_Witness ==
    /\ tpc = "translated"
    /\ \E i \in 1..Len(tools) :
          /\ tools[i].Description = "Do x."
          /\ \E j \in 1..Len(Catalog[i].Parameters) :
                /\ ~Catalog[i].Parameters[j].IsRequired
                /\ IsRequiredOf(tools[i], Catalog[i].Parameters[j].Name)

\* C15: the agent gets one tool per TaskDefinition, in catalog order; the
\* Name of a tool is the task name and its Description holds the task
\* description first and the usage string last.
C15_AgentToolShape ==
    (tpc \in {"wrap", "wrapped"}) =>
        /\ Len(agentTools) = (IF tpc = "wrapped" THEN Len(Catalog) ELSE ti - 1)
        /\ \A i \in 1..Len(agentTools) :
              LET text == ToolDescription(agentTools[i])
              IN  /\ ToolName(agentTools[i]) = Catalog[i].Name
                  /\ HasPrefix(text, Catalog[i].Description)
                  /\ HasSuffix(text, Catalog[i].Usage)
                  /\ Len(text) >= Len(Catalog[i].Description) + Len(Catalog[i].Usage)

C15_Witness ==
    /\ tpc = "wrapped"
    /\ Len(agentTools) = 2
    /\ ToolName(agentTools[1]) = "d:q" /\ ToolName(agentTools[2]) = "w"
    /\ \E i \in 1..2 : /\ Catalog[i].Description = "Do x."
                       /\ Catalog[i].Usage = "w A=1 B=2"

----------------------------------------------------------------------------
(* Properties of concurrent tool calls, checked under SpecConc. *)

\* C17: a call's command is built from its own request, its result from its
\* own request and the outcome of its own process, whatever the other calls
\* do; and a call can always take its next step, whatever state the other
\* calls are in.
C17_CallsIndependent ==
    \A k \in 1..MaxCalls :
        /\ slots[k].pc # "idle" =>
              [slots[k].cmd EXCEPT !.res = NilPtr] \in CommandsOf(slots[k].req)
        /\ slots[k].pc = "done" =>
              slots[k].res = ResultOf(slots[k].req, slots[k].cmd.res)
        /\ slots[k].pc = "idle" => ENABLED CallStart(k)
        /\ slots[k].pc = "running" => ENABLED CallExit(k)
        /\ slots[k].pc = "exited" => ENABLED CallReturn(k)

\* a call has returned while the process of an earlier slot is still running
C17_Witness ==
    /\ slots[1].pc = "running"
    /\ slots[2].pc = "done"
    /\ slots[2].res = ResultOf(slots[2].req, slots[2].cmd.res)

\* two calls have returned different results from different outcomes
C17_WitnessBoth ==
    /\ slots[1].pc = "done" /\ slots[2].pc = "done"
    /\ slots[1].req = slots[2].req
    /\ slots[1].res # slots[2].res

----------------------------------------------------------------------------
(* Frame of the configuration, checked under Spec. *)

\* C18: no step of a public operation writes the runner executable path or
\* the taskfile path.
C18_PathsNeverWritten ==
    [][taskBin' = taskBin /\ (itaskfile # "" => itaskfile' = itaskfile)]_vars

----------------------------------------------------------------------------
(* Properties of the plain-text DiscoverTasks, checked under SpecList. *)

IsTaskItem(item) == item.kind = "task"

\* the names of the tasks the runner listed, in the order of their lines
ListedNames(items) ==
    LET t == SelectSeq(items, IsTaskItem)
    IN  [i \in 1..Len(t) |-> t[i].name]

\* C23: from a plain-text list DiscoverTasks returns exactly the names of
\* the "* name: description" lines, in line order, other lines ignored, also
\* for names that contain ':'.
C23_PlainListNames ==
    (ppc = "done" /\ pret.err = Nil) => pret.names = ListedNames(pout.items)

----------------------------------------------------------------------------
(* Properties of the programs, checked under SpecProgram. *)

InspectFailed == ipc = "done" /\ iret.err # Nil

\* C24: the server serves only after Inspect has returned a catalog and
\* every task of the catalog is registered as a tool with the task handler;
\* nothing is registered before Inspect has returned, and after a failed
\* Inspect nothing is registered, nothing is served and no handler runs.
C24_ServeAfterRegistration ==
    /\ spc = "serving" =>
          /\ CatalogBuilt
          /\ tpc = "translated"
          /\ \A i \in 1..Len(Catalog) :
                /\ Catalog[i].Name \in DOMAIN registered
                /\ registered[Catalog[i].Name].tool.Name = Catalog[i].Name
                /\ registered[Catalog[i].Name].handler = NewTaskHandler(itaskfile)
    /\ ~CatalogBuilt => (registered = <<>> /\ spc # "serving" /\ cpc = "idle")
    /\ cpc # "idle" => spc = "serving"

C24_Witness ==
    /\ spc = "serving"
    /\ Len(Catalog) = 2
    /\ DOMAIN registered = {"w", "d:q"}
    /\ cpc = "done"

\* nothing was served after an inspection that failed at the second task
C24_WitnessFailed ==
    /\ InspectFailed /\ Len(calls) = 3
    /\ spc = "returned"

\* C25: the LLM constructor called is the one of the provider flag: the
\* Anthropic one for "anthropic", the OpenAI one for "openai", none for any
\* other provider; none is called and no tool list is made when Inspect
\* failed, and no tool list is made for another provider.
C25_ConstructorByProvider ==
    /\ lpc # "idle" =>
          /\ CatalogBuilt
          /\ llmCalls = (IF provider = "anthropic" THEN <<"newAnthropicFn">>
                         ELSE IF provider = "openai" THEN <<"newOpenAIFn">>
                         ELSE <<>>)
    /\ lpc = "idle" => llmCalls = <<>>
    /\ (tpc \in {"wrap", "wrapped"} \/ agentTools # <<>>) =>
          (lpc = "ready" /\ provider \in {"anthropic", "openai"} /\ CatalogBuilt)
    /\ ~(provider \in {"anthropic", "openai"}) => lpc # "ready"

C25_Witness ==
    /\ tpc = "wrapped" /\ Len(agentTools) = 2
    /\ provider = "openai"
    /\ llmCalls = <<"newOpenAIFn">>

\* an unsupported provider: the program has returned without a constructor
C25_WitnessUnsupported ==
    /\ lpc = "returned" /\ provider = "unknown-provider"
    /\ llmCalls = <<>> /\ tpc = "idle"

\* C26: the TaskDefinition, the MCP tool and the agent tool built for the
\* i-th discovered name carry exactly that name, whatever the header line of
\* the summary says, and a call of a tool passes the tool's name to the
\* runner as the task argument.
C26_NameFidelity ==
    /\ ipc \in {"loop", "done"} /\ config # NilPtr =>
          \A i \in 1..Len(config.Tasks) : config.Tasks[i].Name = taskNames[i]
    /\ \A i \in 1..Len(tools) : tools[i].Name = taskNames[i]
    /\ \A i \in 1..Len(agentTools) : ToolName(agentTools[i]) = taskNames[i]
    /\ cpc # "idle" =>
          /\ \E i \in 1..Len(taskNames) : taskNames[i] = creq.Name
          /\ ccmd.args[3] = creq.Name
    /\ apc # "idle" =>
          /\ \E i \in 1..Len(taskNames) : taskNames[i] = areq.taskName
          /\ acmd.args[3] = areq.taskName

\* the agent tool of task d:q, whose summary begins with the header
\* "task: w", has been called
C26_Witness ==
    /\ apc = "done"
    /\ areq.taskName = "d:q"
    /\ acmd.args[3] = "d:q"
    /\ \E k \in 2..Len(calls) :
          /\ calls[k].args[1] = "d:q"
          /\ HasPrefix(calls[k].res.stdout, "task: w")

\* the same for the MCP tool of task d:q
C26_WitnessServer ==
    /\ cpc = "done"
    /\ creq.Name = "d:q"
    /\ ccmd.args[3] = "d:q"
    /\ \E k \in 2..Len(calls) :
          /\ calls[k].args[1] = "d:q"
          /\ HasPrefix(calls[k].res.stdout, "task: w")

\* C27: the command of a tool call, by the MCP handler or by the agent
\* tool, runs the executable the inspection ran.
C27_SameRunner ==
    /\ cpc # "idle" => ccmd.bin = calls[1].bin
    /\ apc # "idle" => acmd.bin = calls[1].bin

----------------------------------------------------------------------------
(* Properties of repeated Inspect calls, checked under SpecRepeat. *)

\* C28: every process of an Inspect call runs the executable its taskBinPath
\* argument names, the default "task" when the argument is empty, however
\* many Inspect calls came before.
C28_RunnerFromArguments ==
    \A k \in 1..Len(calls) :
        calls[k].bin = (IF ibin # "" THEN ibin ELSE "task")

----------------------------------------------------------------------------
(* Properties of the TUI viewer, checked under SpecView. *)

IsKey(msg, k) == msg.type = "key" /\ msg.key = k

\* the messages the claim lets change the model while a task is shown
Unfreezing(msg) ==
    \/ msg.type = "size"
    \/ msg.type = "key" /\ msg.key \in {"esc", "q", "ctrl+c"}

\* C30: while a task is shown, only esc, q, ctrl+c and a window resize
\* change the model; the item under the cursor is the one enter selected, so
\* esc shows the list again with that item highlighted; and esc always
\* leaves no task selected.
C30_ListFrozenWhileShown ==
    [][ vm # NilPtr =>
          /\ (vm.selectedTask # NilPtr /\ ~Unfreezing(vmsg')) => vm' = vm
          /\ vm.selectedTask # NilPtr =>
                (vm'.list.cursor = entered /\ vm'.list.items = vm.list.items
                 /\ vm.selectedTask = SelectedItem(vm.list))
          /\ IsKey(vmsg', "esc") =>
                (vm'.selectedTask = NilPtr /\ View(vm') = [screen |-> "list", list |-> vm.list])
      ]_vars

\* a task was selected below the first item, other keys were pressed, and
\* esc has brought the list back with the same item highlighted
C30_Witness ==
    /\ vm # NilPtr
    /\ vmsg # NilPtr
    /\ IsKey(vmsg, "esc")
    /\ vm.selectedTask = NilPtr
    /\ entered = 1 /\ vm.list.cursor = 1
    /\ View(vm).screen = "list"

\* a task is shown and a key of the list has just been delivered
C30_WitnessShown ==
    /\ vm # NilPtr
    /\ vmsg # NilPtr
    /\ vm.selectedTask # NilPtr
    /\ IsKey(vmsg, "down")
    /\ vm.list.cursor = 0 /\ Len(vm.list.items) > 1

====
